---- MODULE Spec2Model ----
(***************************************************************************)
(* Model of the backfill scanner of factoidd (src/src/lib/transaction.ts): *)
(* emitNewTransactions walks the directory blocks from the resume height   *)
(* to the tip and feeds each one to the event emitter; the emitter hands   *)
(* the factoid transactions to saveNewTransaction, which filters them and  *)
(* inserts income rows into the transaction table.                         *)
(***************************************************************************)
EXTENDS Integers, Sequences, FiniteSets, TLC

\* ------------------------------------------------------------------ bounds
\* Highest directory block height the ledger reaches in a run.
MaxTip == 4
\* Highest configured start height tried (options.startHeight is positive).
MaxStart == 2

\* Longest list of outputs of a transaction handed to the classifier.
MaxOutputs == 2
\* Highest amount of one output, in factoshis.
MaxAmount == 2

\* axiosRetry(axios, { retries: 2, ... })
Retries == 2

\* ------------------------------------------------------------- the ledger
\* A block is relevant to the configured addresses unless its height is a
\* multiple of 3; such a block only holds a transfer between foreign addresses.
Relevant(h) == h % 3 # 0

\* The coinbase transaction of block h: no inputs, two outputs to FA_A.
CoinbaseTx(h) ==
    [id |-> <<h, 1>>, timestamp |-> h * 60000 + 1500, totalInputs |-> 0,
     inputs |-> {},
     factoidOutputs |-> << [address |-> "FA_A", amount |-> 2],
                           [address |-> "FA_X", amount |-> 1],
                           [address |-> "FA_A", amount |-> 3] >>,
     height |-> h]

\* A transfer in block h: FA_A pays FA_B.
TransferTx(h) ==
    [id |-> <<h, 2>>, timestamp |-> h * 60000 + 2999, totalInputs |-> 5,
     inputs |-> {"FA_A"},
     factoidOutputs |-> << [address |-> "FA_B", amount |-> 4],
                           [address |-> "FA_X", amount |-> 1] >>,
     height |-> h]

\* A transfer in block h that touches no configured address.
ForeignTx(h) ==
    [id |-> <<h, 3>>, timestamp |-> h * 60000 + 500, totalInputs |-> 7,
     inputs |-> {"FA_Y"},
     factoidOutputs |-> << [address |-> "FA_X", amount |-> 9] >>,
     height |-> h]

\* factom.cli.getDirectoryBlock(h): the transactions of the block at height h.
Block(h) == IF Relevant(h) THEN {CoinbaseTx(h), TransferTx(h)} ELSE {ForeignTx(h)}

\* ---------------------------------------------------------- configuration
\* The address lists tried. The schema requires address, name, coinbase and
\* nonCoinbase; only names must differ, so one address may be listed twice.
AddressLists ==
    { << [address |-> "FA_A", name |-> "a", currency |-> "USD",
          coinbase |-> TRUE, nonCoinbase |-> FALSE],
         [address |-> "FA_B", name |-> "b", currency |-> "USD",
          coinbase |-> FALSE, nonCoinbase |-> TRUE] >>,
      << [address |-> "FA_A", name |-> "a", currency |-> "USD",
          coinbase |-> TRUE, nonCoinbase |-> TRUE],
         [address |-> "FA_A", name |-> "a2", currency |-> "EUR",
          coinbase |-> TRUE, nonCoinbase |-> FALSE] >>,
      << [address |-> "FA_A", name |-> "a", currency |-> "USD",
          coinbase |-> FALSE, nonCoinbase |-> TRUE],
         [address |-> "FA_B", name |-> "b", currency |-> "USD",
          coinbase |-> TRUE, nonCoinbase |-> TRUE] >> }

VARIABLES
    addresses,          \* config.addresses
    configStartHeight,  \* config.options.startHeight
    tip,                \* directoryBlockHeight of the ledger node
    pc,                 \* position of the process
    m,                  \* const m of emitNewTransactions
    startHeight,        \* const startHeight of emitNewTransactions
    stopHeight,         \* const stopHeight of emitNewTransactions
    i,                  \* loop variable of emitNewTransactions
    attempt,            \* retries already spent on the request in flight
    pending,            \* transactions handed to the emitter, not yet saved
    records,            \* rows of the transaction table (durable)
    fetched,            \* heights fetched by the running pass, in order
    err,                \* the error the catch block of the pass received
    failedAt,           \* the height whose fetch raised err (0: the tip fetch)
    lastInsert          \* outcome of the latest saveNewTransaction

vars == <<addresses, configStartHeight, tip, pc, m, startHeight, stopHeight, i,
          attempt, pending, records, fetched, err, failedAt, lastInsert>>

config == <<addresses, configStartHeight>>
volatile == <<m, startHeight, stopHeight, i, attempt, fetched, err, failedAt, lastInsert>>

\* ------------------------------------------------------ transaction table
SetMax(S) == IF S = {} THEN 0 ELSE CHOOSE x \in S : \A y \in S : y <= x

SetMin(S) == IF S = {} THEN 0 ELSE CHOOSE x \in S : \A y \in S : y >= x

\* A wrong getMaxHeight: the lowest stored height.
GetMinHeight(recs) == SetMin({r.height : r \in recs})

\* db.getMaxHeight(): the highest height of a stored row, 0 for an empty table.
\* The scanner writes to the table only through insertUncommittedTransaction
\* and commits no height of its own, so the height it resumes from
\* ("the maximum processed height") is a function of the stored rows.
GetMaxHeight(recs) == SetMax({r.height : r \in recs})

Key(r) == <<r.address, r.txhash>>

KeyExists(recs, row) == \E r \in recs : Key(r) = Key(row)

\* A wrong insert: no uniqueness of (address, txhash).
InsertWithoutKey(recs, row) == recs \cup {row}

\* db.insertUncommittedTransaction(row): rejected as a duplicate when the
\* (address, txhash) pair is already stored, otherwise the row is added.
InsertUncommittedTransaction(recs, row) ==
    IF KeyExists(recs, row) THEN recs ELSE recs \cup {row}

\* ----------------------------------------------------------- classifier
\* A wrong sum: every output counts, whatever its address.
RECURSIVE SumAllAmounts(_, _)
SumAllAmounts(outputs, address) ==
    IF outputs = <<>> THEN 0
    ELSE Head(outputs).amount + SumAllAmounts(Tail(outputs), address)

RECURSIVE SumAmounts(_, _)
SumAmounts(outputs, address) ==
    IF outputs = <<>> THEN 0
    ELSE (IF Head(outputs).address = address THEN Head(outputs).amount ELSE 0)
         + SumAmounts(Tail(outputs), address)

\* sumFCToutputs: the factoshi total of the outputs to address, times 10^-8.
sumFCToutputs(tx, address) ==
    [factoshis |-> SumAmounts(tx.factoidOutputs, address), exp10 |-> -8]

\* A wrong test: only a negative total is taken for no receipt.
IsNegative(amount) == amount.factoshis < 0

\* received === 0
IsZero(amount) == amount.factoshis = 0

\* toInteger(tx.timestamp / 1000)
toInteger(ms) == ms \div 1000

\* A wrong row: the timestamp is left in milliseconds.
formatIncomeTransactionMillis(tx, conf, receivedFCT) ==
    [address |-> conf.address,
     timestamp |-> tx.timestamp,
     date |-> [isoMillis |-> tx.timestamp],
     txhash |-> tx.id,
     height |-> tx.height,
     symbol |-> "FCT",
     currency |-> conf.currency,
     receivedFCT |-> receivedFCT]

formatIncomeTransaction(tx, conf, receivedFCT) ==
    [address |-> conf.address,
     timestamp |-> toInteger(tx.timestamp),
     date |-> [isoMillis |-> tx.timestamp],
     txhash |-> tx.id,
     height |-> tx.height,
     symbol |-> "FCT",
     currency |-> conf.currency,
     receivedFCT |-> receivedFCT]

\* A wrong filter: the non-coinbase half is missing.
FilteredOutCoinbaseOnly(conf, tx) == tx.totalInputs = 0 /\ ~conf.coinbase

\* The coinbase filter of saveNewTransaction (lines 78-81): TRUE when skipped.
FilteredOut(conf, tx) ==
    LET isCoinbase == tx.totalInputs = 0
    IN (isCoinbase /\ ~conf.coinbase) \/ (~isCoinbase /\ ~conf.nonCoinbase)

\* TRUE when saveNewTransaction(conf, db, tx) reaches the insert.
ReachesInsert(conf, tx) ==
    /\ ~FilteredOut(conf, tx)
    /\ ~IsZero(sumFCToutputs(tx, conf.address))

RowOf(conf, tx) == formatIncomeTransaction(tx, conf, sumFCToutputs(tx, conf.address))

\* ------------------------------------------------------------ the emitter
\* factom.event.handleDirectoryBlock(block): the emitter hands every factoid
\* transaction of the block to the listener of each configured address that
\* appears in it. The call is not awaited, so the listeners run later.
Emitted(h) ==
    { [conf |-> c, tx |-> tx] : c \in 1..Len(addresses), tx \in Block(h) }

Involves(tx, address) ==
    \/ address \in tx.inputs
    \/ \E k \in 1..Len(tx.factoidOutputs) : tx.factoidOutputs[k].address = address

handleDirectoryBlock(h) ==
    { t \in Emitted(h) : Involves(t.tx, addresses[t.conf].address) }

\* ---------------------------------------------------------------- process
Init ==
    /\ addresses \in AddressLists
    /\ configStartHeight \in 1..MaxStart
    /\ tip \in 0..MaxTip
    /\ pc = "idle"
    /\ m = 0 /\ startHeight = 0 /\ stopHeight = 0 /\ i = 0 /\ attempt = 0
    /\ pending = {}
    /\ records = {}
    /\ fetched = <<>>
    /\ err = "none" /\ failedAt = 0
    /\ lastInsert = "none"

\* The memory of a process that is gone.
Forgotten ==
    /\ m' = 0 /\ startHeight' = 0 /\ stopHeight' = 0 /\ i' = 0 /\ attempt' = 0
    /\ fetched' = <<>> /\ err' = "none" /\ failedAt' = 0 /\ lastInsert' = "none"

\* A catch block that logs the error and lets the pass end.
CatchAndContinue(e, h) ==
    /\ pc' = "done"
    /\ err' = e /\ failedAt' = h
    /\ attempt' = 0
    /\ UNCHANGED <<config, tip, m, startHeight, stopHeight, i, pending, records,
                   fetched, lastInsert>>

\* A catch block that takes a block that is not there for the end of the chain.
CatchNotFoundAsCaughtUp(e, h) ==
    /\ pc' = IF e = "NotFound" THEN "done" ELSE "fatal"
    /\ pending' = IF e = "NotFound" THEN pending ELSE {}
    /\ err' = e /\ failedAt' = h
    /\ attempt' = 0
    /\ UNCHANGED <<config, tip, m, startHeight, stopHeight, i, records, fetched,
                   lastInsert>>

\* catch (e) { logger.error('Fatal error...'); process.exit(1); }
\* The process ends: what the emitter still held is lost.
CatchFatal(e, h) ==
    /\ pc' = "fatal"
    /\ pending' = {}
    /\ err' = e /\ failedAt' = h
    /\ attempt' = 0
    /\ UNCHANGED <<config, tip, m, startHeight, stopHeight, i, records, fetched,
                   lastInsert>>

\* A wrong resume height: the lower of the two.
ResumeHeightMin(stored, configured) == IF stored > configured THEN configured ELSE stored

\* const startHeight = m > configStartHeight ? m : configStartHeight;
ResumeHeight(stored, configured) == IF stored > configured THEN stored ELSE configured

\* const m = await db.getMaxHeight(); const startHeight = ...
FindStartHeight ==
    /\ pc = "idle"
    /\ m' = GetMaxHeight(records)
    /\ startHeight' = ResumeHeight(GetMaxHeight(records), configStartHeight)
    /\ pc' = "heights"
    /\ UNCHANGED <<config, tip, stopHeight, i, attempt, pending, records, fetched,
                   err, failedAt, lastInsert>>

\* A loop that starts at the resume height itself.
GetHeightsInclusive ==
    /\ pc = "heights"
    /\ stopHeight' = tip
    /\ i' = startHeight
    /\ attempt' = 0
    /\ pc' = "scanning"
    /\ UNCHANGED <<config, tip, m, startHeight, pending, records, fetched, err,
                   failedAt, lastInsert>>

\* const { directoryBlockHeight: stopHeight } = await factom.cli.getHeights();
\* for (let i = startHeight + 1; ...
GetHeights ==
    /\ pc = "heights"
    /\ stopHeight' = tip
    /\ i' = startHeight + 1
    /\ attempt' = 0
    /\ pc' = "scanning"
    /\ UNCHANGED <<config, tip, m, startHeight, pending, records, fetched, err,
                   failedAt, lastInsert>>

\* A wrong loop: the body runs once before the bound is looked at.
LoopRunsAtLeastOnce == i <= stopHeight \/ fetched = <<>>

\* i <= stopHeight
LoopCondition == i <= stopHeight

\* A retry that starts its count again when the budget is spent.
RetryRequestWithoutLimit ==
    /\ pc = "heights" \/ (pc = "scanning" /\ LoopCondition)
    /\ attempt' = (attempt + 1) % (Retries + 1)
    /\ UNCHANGED <<config, tip, pc, m, startHeight, stopHeight, i, pending, records,
                   fetched, err, failedAt, lastInsert>>

\* A request failed with a transient error and axios-retry sends it again.
RetryRequest ==
    /\ pc = "heights" \/ (pc = "scanning" /\ LoopCondition)
    /\ attempt < Retries
    /\ attempt' = attempt + 1
    /\ UNCHANGED <<config, tip, pc, m, startHeight, stopHeight, i, pending, records,
                   fetched, err, failedAt, lastInsert>>

\* getHeights failed on the last attempt: the error reaches the catch block.
GetHeightsUnavailable ==
    /\ pc = "heights"
    /\ attempt = Retries
    /\ CatchFatal("UpstreamUnavailable", 0)

\* const directoryBlock = await factom.cli.getDirectoryBlock(i);
\* factom.event.handleDirectoryBlock(directoryBlock); i++
FetchBlock ==
    /\ pc = "scanning"
    /\ LoopCondition
    /\ fetched' = Append(fetched, i)
    /\ pending' = pending \cup handleDirectoryBlock(i)
    /\ i' = i + 1
    /\ attempt' = 0
    /\ UNCHANGED <<config, tip, pc, m, startHeight, stopHeight, records, err,
                   failedAt, lastInsert>>

\* getDirectoryBlock(i) failed on the last attempt.
FetchBlockUnavailable ==
    /\ pc = "scanning"
    /\ LoopCondition
    /\ attempt = Retries
    /\ CatchFatal("UpstreamUnavailable", i)

\* getDirectoryBlock(i) is answered with "block not found": not retried.
FetchBlockNotFound ==
    /\ pc = "scanning"
    /\ LoopCondition
    /\ CatchFatal("NotFound", i)

\* A scan that goes back to read the tip when its loop ends.
ScanCompleteThenPoll ==
    /\ pc = "scanning"
    /\ ~LoopCondition
    /\ pc' = "heights"
    /\ startHeight' = i - 1
    /\ UNCHANGED <<config, tip, m, stopHeight, i, attempt, pending, records,
                   fetched, err, failedAt, lastInsert>>

\* The loop ends: logger.info(`Scan complete`).
ScanComplete ==
    /\ pc = "scanning"
    /\ ~LoopCondition
    /\ pc' = "done"
    /\ UNCHANGED <<config, tip, m, startHeight, stopHeight, i, attempt, pending,
                   records, fetched, err, failedAt, lastInsert>>

\* A saveNewTransaction whose try block awaits the insert, so that a rejected
\* insert reaches its catch block and ends the process.
SaveNewTransactionAwaited(t) ==
    LET conf == addresses[t.conf]
        row == RowOf(conf, t.tx)
    IN /\ t \in pending
       /\ pc \in {"heights", "scanning", "done"}
       /\ IF ~ReachesInsert(conf, t.tx)
          THEN /\ lastInsert' = "skipped"
               /\ pending' = pending \ {t}
               /\ UNCHANGED <<records, pc>>
          ELSE IF KeyExists(records, row)
          THEN /\ lastInsert' = "duplicate"
               /\ pending' = {}
               /\ pc' = "fatal"
               /\ UNCHANGED records
          ELSE /\ lastInsert' = "inserted"
               /\ pending' = pending \ {t}
               /\ records' = InsertUncommittedTransaction(records, row)
               /\ UNCHANGED pc
       /\ UNCHANGED <<config, tip, m, startHeight, stopHeight, i, attempt, fetched,
                      err, failedAt>>

\* saveNewTransaction(conf, db, tx), run by the emitter for one transaction.
\* The insert is returned, not awaited: a rejected insert does not reach the
\* catch block.
SaveNewTransaction(t) ==
    LET conf == addresses[t.conf]
        row == RowOf(conf, t.tx)
    IN /\ t \in pending
       /\ pc \in {"heights", "scanning", "done"}
       /\ pending' = pending \ {t}
       /\ IF ~ReachesInsert(conf, t.tx)
          THEN /\ lastInsert' = IF FilteredOut(conf, t.tx) THEN "filtered" ELSE "noReceipt"
               /\ UNCHANGED records
          ELSE /\ lastInsert' = IF KeyExists(records, row) THEN "duplicate" ELSE "inserted"
               /\ records' = InsertUncommittedTransaction(records, row)
       /\ UNCHANGED <<config, tip, pc, m, startHeight, stopHeight, i, attempt,
                      fetched, err, failedAt>>

Save == \E t \in pending : SaveNewTransaction(t)

\* saveNewTransaction where the insert fails for another reason than a stored
\* key and the failure arrives as a rejected promise: the insert is returned,
\* not awaited (line 97), so the catch block of lines 98-101 does not see it.
SaveWriteRejected(t) ==
    /\ t \in pending
    /\ pc \in {"heights", "scanning", "done"}
    /\ ReachesInsert(addresses[t.conf], t.tx)
    /\ pending' = pending \ {t}
    /\ lastInsert' = "failed"
    /\ UNCHANGED <<config, tip, pc, m, startHeight, stopHeight, i, attempt,
                   records, fetched, err, failedAt>>

\* saveNewTransaction where the call of the insert itself throws: the catch
\* block logs 'Fatal error. Failed to save transaction' and exits the process.
SaveWriteThrown(t) ==
    /\ t \in pending
    /\ pc \in {"heights", "scanning", "done"}
    /\ ReachesInsert(addresses[t.conf], t.tx)
    /\ pc' = "fatal"
    /\ pending' = {}
    /\ lastInsert' = "failed"
    /\ err' = "StoreWriteFailure" /\ failedAt' = t.tx.height
    /\ UNCHANGED <<config, tip, m, startHeight, stopHeight, i, attempt, records,
                   fetched>>


SaveRejected == \E t \in pending : SaveWriteRejected(t)

SaveThrown == \E t \in pending : SaveWriteThrown(t)

\* The ledger grows by one block.
TipAdvance ==
    /\ tip < MaxTip
    /\ tip' = tip + 1
    /\ UNCHANGED <<config, pc, volatile, pending, records>>

\* The process is killed (a termination signal, for which the scan has no
\* handler and no check in its loop, or a failure of the host): only the
\* transaction table survives.
Crash ==
    /\ pc \in {"idle", "heights", "scanning", "done"}
    /\ pc' = "crashed"
    /\ pending' = {}
    /\ Forgotten
    /\ UNCHANGED <<config, tip, records>>

\* The process is started again after a crash or a fatal exit.
Restart ==
    /\ pc \in {"crashed", "fatal"}
    /\ pc' = "idle"
    /\ pending' = {}
    /\ Forgotten
    /\ UNCHANGED <<config, tip, records>>

\* ------------------------------------------------------------ properties
Max2(a, b) == IF a > b THEN a ELSE b

Keys(recs) == {Key(r) : r \in recs}

\* The rows an uninterrupted scan of the block at height h inserts.
ExpectedRows(h) ==
    { RowOf(addresses[t.conf], t.tx) :
        t \in { u \in handleDirectoryBlock(h) : ReachesInsert(addresses[u.conf], u.tx) } }

ExpectedKeys(h) == Keys(ExpectedRows(h))

ExpectedKeysBetween(lo, hi) == UNION { ExpectedKeys(h) : h \in lo..hi }

\* C1: when a pass has ended and the emitter holds nothing, the table holds
\* exactly one row for every relevant (address, transaction) of the heights
\* configStartHeight+1 .. stopHeight, whatever crashes and restarts came before.
IdempotentResume ==
    (pc = "done" /\ pending = {}) =>
        Keys(records) = ExpectedKeysBetween(configStartHeight + 1, stopHeight)

\* C2: no height at or below getMaxHeight() (and above the configured start)
\* has a relevant transaction whose row is not in the table.
CursorOnlyPastInsertedHeights ==
    \A h \in (configStartHeight + 1)..GetMaxHeight(records) :
        ExpectedKeys(h) \subseteq Keys(records)

\* C3: getMaxHeight() never decreases, in any step of any run.
CursorMonotonic == [][GetMaxHeight(records') >= GetMaxHeight(records)]_vars

\* A restarted process finds rows stored by an earlier one.
CursorMonotonicWitness == pc = "idle" /\ GetMaxHeight(records) > configStartHeight

\* C4: the table holds at most one row per (address, txhash).
UniqueAddressTx == \A r1, r2 \in records : Key(r1) = Key(r2) => r1 = r2

\* A second row for a stored (address, txhash) was offered to the table.
UniqueAddressTxWitness ==
    /\ lastInsert = "duplicate"
    /\ \E c \in 1..Len(addresses) : \E r \in records :
          /\ addresses[c].address = r.address
          /\ addresses[c].currency # r.currency

\* C5: the pass reads the current getMaxHeight(), its first fetch is at
\* max(getMaxHeight(), configStartHeight) + 1, and a pass that ends normally
\* has fetched exactly the heights from there to the tip, in order.
FirstHeightFetched ==
    /\ pc = "heights" => m = GetMaxHeight(records)
    /\ Len(fetched) > 0 => fetched[1] = Max2(m, configStartHeight) + 1
    /\ (pc = "done" /\ Max2(m, configStartHeight) < stopHeight) =>
          fetched = [k \in 1..(stopHeight - Max2(m, configStartHeight)) |->
                        Max2(m, configStartHeight) + k]

\* A pass resumed from a stored height above the configured one has fetched.
FirstHeightFetchedWitness ==
    /\ Len(fetched) > 0
    /\ m > configStartHeight
    /\ pc = "done"

\* C6: heights are fetched in increasing order without gaps, and a height is
\* fetched only when no row of an earlier height is still to be inserted.
NoFetchAhead ==
    /\ \A k \in 1..Len(fetched) : fetched[k] = startHeight + k
    /\ \A t \in pending :
          ReachesInsert(addresses[t.conf], t.tx) =>
              (Len(fetched) > 0 /\ t.tx.height = fetched[Len(fetched)])

\* The pass knows the tip: getHeights has answered.
TipKnown == pc \in {"scanning", "done"} \/ (pc = "fatal" /\ failedAt > 0)

\* C7: a pass whose first height is above the tip fetches nothing, hands
\* nothing to the emitter, leaves getMaxHeight() as it was, meets no error
\* and does not end in the fatal exit.
NoWorkAboveTip ==
    (TipKnown /\ startHeight >= stopHeight) =>
        /\ pc # "fatal"
        /\ err = "none"
        /\ fetched = <<>>
        /\ pending = {}
        /\ GetMaxHeight(records) = m

\* A pass resumed at or above the tip has ended.
NoWorkAboveTipWitness == pc = "done" /\ startHeight >= stopHeight /\ m > 0

NotFoundIsCaughtUp == err = "NotFound" => pc = "done"

\* C9 amended: a block that is not found ends the pass in the fatal exit; the
\* height is not handed to the emitter and no further height is fetched.
NotFoundIsFatal ==
    err = "NotFound" =>
        /\ pc = "fatal"
        /\ failedAt = i
        /\ \A k \in 1..Len(fetched) : fetched[k] < failedAt
        /\ pending = {}

\* A block was not found after earlier heights of the pass were fetched.
NotFoundIsFatalWitness == err = "NotFound" /\ pc = "fatal" /\ Len(fetched) > 0

\* TRUE when saveNewTransaction for t offers a row whose key is stored.
OffersDuplicate(t) ==
    /\ ReachesInsert(addresses[t.conf], t.tx)
    /\ KeyExists(records, RowOf(addresses[t.conf], t.tx))

StoreWriteFailureIsFatal ==
    /\ lastInsert = "failed" => pc = "fatal"
    /\ (pc = "fatal" /\ err = "StoreWriteFailure") =>
          GetMaxHeight(records) < failedAt

CancellationFinishesHeight ==
    pc = "crashed" =>
        \A h \in (configStartHeight + 1)..GetMaxHeight(records) :
            ExpectedKeys(h) \subseteq Keys(records)

\* The request for the tip, or for the block at height h, is in flight.
InTipFetch == pc = "heights"

InBlockFetch(h) == pc = "scanning" /\ i = h /\ LoopCondition

\* C18: a request is sent at most Retries + 1 times: each retry counts one up
\* while the same request is in flight, and with the budget spent no retry is
\* possible; the error reaches the scan only then, and the process ends in the
\* fatal exit.
BoundedRetry ==
    /\ [](attempt \in 0..Retries)
    /\ []((InTipFetch \/ \E h \in 1..MaxTip : InBlockFetch(h)) =>
             (ENABLED RetryRequest <=> attempt < Retries))
    /\ [][/\ (pc' = pc /\ i' = i /\ attempt' # attempt) => attempt' = attempt + 1
          /\ (err = "none" /\ err' = "UpstreamUnavailable") =>
                (attempt = Retries /\ pc' = "fatal")]_vars

\* With every request answered in the end, no fetch lasts forever (FairSpec).
FetchEnds ==
    /\ InTipFetch ~> ~InTipFetch
    /\ \A h \in 1..MaxTip : InBlockFetch(h) ~> ~InBlockFetch(h)

\* A block fetch failed on the first try and on both retries.
BoundedRetryWitness ==
    pc = "fatal" /\ err = "UpstreamUnavailable" /\ failedAt > 0 /\ records = {}

\* C19: the scan never fetches a block at or below the configured start
\* height, and the table never holds a row of such a height.
StartHeightExclusive ==
    /\ \A k \in 1..Len(fetched) : fetched[k] > configStartHeight
    /\ \A r \in records : r.height > configStartHeight

\* A first pass over an empty table has ended: the block at the configured
\* start height holds relevant transactions and none of them is stored.
StartHeightExclusiveWitness ==
    /\ pc = "done" /\ pending = {} /\ m = 0
    /\ fetched # <<>> /\ fetched[1] = configStartHeight + 1
    /\ records # {}
    /\ Relevant(configStartHeight) /\ tip >= configStartHeight

\* ------------------------------------------------- the classifier alone
\* saveNewTransaction applied to one transaction and one address config drawn
\* from bounded sets, with an empty table: block 2 was fetched and its one
\* transaction handed to the listener of the one configured address.
ClassifyOutputs == [address : {"FA_A", "FA_X"}, amount : 0..MaxAmount]

ClassifyOutputLists == UNION { [1..n -> ClassifyOutputs] : n \in 0..MaxOutputs }

ClassifyTxs ==
    [id : {<<2, 1>>}, timestamp : {121999, 122000}, totalInputs : {0, 5},
     inputs : {{}}, factoidOutputs : ClassifyOutputLists, height : {2}]

ClassifyConfigs ==
    [address : {"FA_A"}, name : {"a"}, currency : {"USD"},
     coinbase : BOOLEAN, nonCoinbase : BOOLEAN]

ClassifyInit ==
    /\ addresses \in { <<c>> : c \in ClassifyConfigs }
    /\ configStartHeight = 1
    /\ tip = 2
    /\ pc = "done"
    /\ m = 0 /\ startHeight = 1 /\ stopHeight = 2 /\ i = 3 /\ attempt = 0
    /\ pending \in { {[conf |-> 1, tx |-> tx]} : tx \in ClassifyTxs }
    /\ records = {}
    /\ fetched = <<2>>
    /\ err = "none" /\ failedAt = 0
    /\ lastInsert = "none"

ClassifyNext == Save

SpecClassify == ClassifyInit /\ [][ClassifyNext]_vars

\* The factoshis of the outputs of outs[1..k] that go to address a.
RECURSIVE ReceivedUpTo(_, _, _)
ReceivedUpTo(outs, a, k) ==
    IF k = 0 THEN 0
    ELSE ReceivedUpTo(outs, a, k - 1)
         + (IF outs[k].address = a THEN outs[k].amount ELSE 0)

Received(tx, a) == ReceivedUpTo(tx.factoidOutputs, a, Len(tx.factoidOutputs))

\* The config refuses the kind (coinbase or not) of the transaction.
Refused(conf, tx) ==
    \/ tx.totalInputs = 0 /\ ~conf.coinbase
    \/ tx.totalInputs # 0 /\ ~conf.nonCoinbase

\* C12: saveNewTransaction stores nothing for a coinbase transaction when the
\* config does not accept coinbase, and nothing for a non-coinbase transaction
\* when the config does not accept non-coinbase, whatever the outputs.
ClassificationFilter ==
    [][\A t \in pending :
          (SaveNewTransaction(t) /\ Refused(addresses[t.conf], t.tx)) =>
              (records' = records /\ lastInsert' = "filtered")]_vars

\* A transaction was dropped by the filter of a config that accepts one kind.
ClassificationFilterWitness ==
    /\ lastInsert = "filtered" /\ records = {} /\ pending = {}
    /\ addresses[1].coinbase # addresses[1].nonCoinbase

\* C13: saveNewTransaction stores nothing for an address that no output of the
\* transaction pays, or whose outputs add up to 0.
ZeroReceiptSuppressed ==
    [][\A t \in pending :
          (/\ SaveNewTransaction(t)
           /\ \A k \in 1..Len(t.tx.factoidOutputs) :
                 t.tx.factoidOutputs[k].address = addresses[t.conf].address
                     => t.tx.factoidOutputs[k].amount = 0)
              => records' = records]_vars

\* A transaction the config accepts was dropped for paying the address nothing.
ZeroReceiptSuppressedWitness ==
    /\ lastInsert = "noReceipt" /\ records = {} /\ pending = {}
    /\ addresses[1].coinbase /\ addresses[1].nonCoinbase

\* C14: a transaction that is stored yields one row for the configured
\* address, whose amount is the total of the outputs to that address only
\* (scaled by 10^-8); an accepted transaction with such a total is stored.
MultiOutputAggregation ==
    [][\A t \in pending :
          SaveNewTransaction(t) =>
              /\ records' # records =>
                    \E r \in records' :
                       /\ r \notin records /\ records' = records \cup {r}
                       /\ r.address = addresses[t.conf].address
                       /\ r.receivedFCT.factoshis = Received(t.tx, addresses[t.conf].address)
                       /\ r.receivedFCT.exp10 = -8
              /\ (/\ ~Refused(addresses[t.conf], t.tx)
                  /\ Received(t.tx, addresses[t.conf].address) # 0
                  /\ records = {}) => records' # records]_vars

\* A row was stored whose amount is more than one output can carry.
MultiOutputAggregationWitness ==
    \E r \in records : r.receivedFCT.factoshis > MaxAmount

\* C15: a pair that passes both filters has, once saved, exactly one row with
\* the configured address and the transaction's id; the row carries the height
\* of the block and the timestamp in whole seconds, rounded down.
OneRecordPerPassingPair ==
    [][\A t \in pending :
          (/\ SaveNewTransaction(t)
           /\ ~Refused(addresses[t.conf], t.tx)
           /\ Received(t.tx, addresses[t.conf].address) # 0)
              => /\ Cardinality({ r \in records' :
                        r.address = addresses[t.conf].address /\ r.txhash = t.tx.id }) = 1
                 /\ \A r \in records' :
                       (r.address = addresses[t.conf].address /\ r.txhash = t.tx.id) =>
                          /\ r.height = t.tx.height
                          /\ r.timestamp * 1000 <= t.tx.timestamp
                          /\ t.tx.timestamp < (r.timestamp + 1) * 1000]_vars

\* A row was stored for a transaction stamped just before a full second.
OneRecordPerPassingPairWitness ==
    \E r \in records :
        r.date.isoMillis = 121999 /\ r.timestamp = 121 /\ r.height = fetched[1]

\* --------------------------------------------------------- specification
Next ==
    \/ FindStartHeight
    \/ GetHeights
    \/ RetryRequest
    \/ GetHeightsUnavailable
    \/ FetchBlock
    \/ FetchBlockUnavailable
    \/ FetchBlockNotFound
    \/ ScanComplete
    \/ Save
    \/ SaveRejected
    \/ SaveThrown
    \/ TipAdvance
    \/ Crash
    \/ Restart

Spec == Init /\ [][Next]_vars

\* A request in flight is answered in the end, with a result or with an error.
RequestAnswered ==
    \/ GetHeights \/ GetHeightsUnavailable
    \/ FetchBlock \/ FetchBlockUnavailable \/ FetchBlockNotFound
    \/ RetryRequest

FairSpec == Spec /\ WF_vars(RequestAnswered)

====
